---- MODULE Spec2Model ----
(***************************************************************************)
(* ExprTree Visualizer: the expression input (validation, normalisation,   *)
(* infix -> postfix), the single-slot ExpressionStateService, the postfix  *)
(* stack builder and the two recursive-descent builders (with and without  *)
(* the virtual stack), with the parser panel that subscribes to the store. *)
(*                                                                         *)
(* Text is a sequence of one-character strings; a token is a sequence of   *)
(* characters.  Nodes are JavaScript objects: they live in a heap (a       *)
(* sequence of node records) and are named by their index in it, so that   *)
(* identity and sharing of nodes are part of the model.                    *)
(***************************************************************************)
EXTENDS Integers, Sequences, FiniteSets, TLC

VARIABLES
    expression,        \* ExpressionInputComponent: the form's text
    validationErrors,  \* ExpressionInputComponent.validationErrors
    isValid,           \* ExpressionInputComponent.isValid
    version,           \* which revision of the components is running
    subject,           \* ExpressionStateService.expressionSubject's value
    panel,             \* RecursiveParserPanelComponent: parseResult, currentStepIndex
    lastCall,          \* the handler that ran last, and how it ended
    input,             \* the string handed to a builder call
    call,              \* the builder call in progress (its locals and position)
    calls              \* builder calls in progress side by side, each with its text

vars == <<version, expression, validationErrors, isValid, subject, panel, lastCall, input, call,
          calls>>

uiVars == <<version, expression, validationErrors, isValid, subject, panel, lastCall>>


-----------------------------------------------------------------------------
(* Bounds of the model *)

\* longest expression a builder call is started on (besides the examples)
MaxLen == 4

\* longest input with whitespace or a character outside the allowed set
MaxOther == 3

\* longest text typed into the form
MaxText == 3

\* most binary operators in an enumerated chain  operand (operator operand)*
MaxOps == 2
MaxRun == 3

-----------------------------------------------------------------------------
(* Characters *)

Letters == {"a", "b", "c", "x", "y", "z"}

Digits == {"2", "3", "4", "5", "6"}

Whitespace == {" "}

ALLOWED_OPERATORS == <<"+", "-", "*", "/", "\\", "^">>


\* the characters the enumerated expressions are made of
ExprChars == {"a", "2", "+", "-", "*", "^", "(", ")"}

\* whitespace, and "#" for any character outside the allowed set
OtherChars == {" ", "#"}

\* the characters typed into the form
TypedChars == {"a", " "}

\* the operator buttons pressed
PressedOperators == {"+"}

EXAMPLE_EXPRESSIONS ==
    << <<"a","+","b","*","c">>,
       <<"(","a","+","b",")","*","c">>,
       <<"3","*","(","4","+","5",")","-","6","/","2">>,
       <<"(","a","^","2","+","b","^","2",")","\\","c">>,
       <<"x","*","(","y","+","z",")","^","2">> >>

Examples == {EXAMPLE_EXPRESSIONS[k] : k \in 1..Len(EXAMPLE_EXPRESSIONS)}

TextsUpTo(chars, n) == UNION {[1..k -> chars] : k \in 0..n}

\* the operands of the enumerated chains
ChainOperands == {"a", "2"}

\* the texts  operand (operator operand)*  with at most n operators
RECURSIVE Chains(_)
Chains(n) ==
    IF n = 0 THEN {<<o>> : o \in ChainOperands}
    ELSE Chains(n - 1) \cup
         {t \o <<ALLOWED_OPERATORS[k], o>> :
             t \in {u \in Chains(n - 1) : Len(u) = 2 * n - 1},
             k \in 1..Len(ALLOWED_OPERATORS), o \in ChainOperands}

\* the expressions of the documented scenarios
SCENARIOS ==
    << <<"a","-","b","-","c">>,
       <<"a","^","b","^","c">>,
       <<"-","x","^","2">>,
       <<"(","a","+","b",")","^","2">>,
       <<"-","x">>,
       <<"-","x","+","y">>,
       <<"(","a","+","b">>,
       <<"a","+","+","b">>,
       <<"(","-","x",")","^","2">>,
       <<"2","^","-","-","2">> >>

Scenarios == {SCENARIOS[k] : k \in 1..Len(SCENARIOS)}

-----------------------------------------------------------------------------
(* Helpers on sequences *)

Last(s) == s[Len(s)]

Front(s) == SubSeq(s, 1, Len(s) - 1)


IsPrefix(s, t) == Len(s) <= Len(t) /\ SubSeq(t, 1, Len(s)) = s

DigitStr == <<"0", "1", "2", "3", "4", "5", "6", "7", "8", "9">>

RECURSIVE NumStr(_)
NumStr(n) == IF n < 10 THEN <<DigitStr[n + 1]>> ELSE NumStr(n \div 10) \o <<DigitStr[(n % 10) + 1]>>

-----------------------------------------------------------------------------
(* ExpressionInputComponent: normalizeExpression, toPostfix, validateExpression *)

RECURSIVE normalizeExpression(_)
normalizeExpression(expr) ==
    IF expr = <<>> THEN <<>>
    ELSE IF Head(expr) \in Whitespace THEN normalizeExpression(Tail(expr))
    ELSE <<Head(expr)>> \o normalizeExpression(Tail(expr))

trim(expr) ==
    LET idx == {k \in 1..Len(expr) : expr[k] \notin Whitespace}
    IN  IF idx = {} THEN <<>>
        ELSE SubSeq(expr, CHOOSE k \in idx : \A m \in idx : k <= m,
                          CHOOSE k \in idx : \A m \in idx : k >= m)

\* rightAssociative with the fault of an empty set: "^" groups to the left
rightAssociativeNone == {}

precedence(c) ==
    CASE c \in {"+", "-"} -> 1
      [] c \in {"*", "/", "\\"} -> 2
      [] c = "^" -> 3

rightAssociative == {"^"}

isOperatorChar(c) == c \in {"+", "-", "*", "/", "\\", "^"}

isOperandChar(c) == c \in Letters \cup Digits

ConvInit == [output |-> <<>>, stack |-> <<>>, threw |-> FALSE, error |-> ""]

ConvThrow(s, msg) == [s EXCEPT !.threw = TRUE, !.error = msg]

\* popHigher with the fault of popping operators of greater precedence only
RECURSIVE popHigherStrict(_, _)
popHigherStrict(s, token) ==
    IF s.stack = <<>> THEN s
    ELSE LET top == Last(s.stack) IN
         IF ~isOperatorChar(top) THEN s
         ELSE IF precedence(top) > precedence(token)
              THEN popHigherStrict([s EXCEPT !.output = Append(s.output, top),
                                             !.stack = Front(s.stack)], token)
              ELSE s

\* the while loop of an operator token: pop to the output while the top is an
\* operator of greater precedence, or of equal precedence and the token is
\* not right-associative
RECURSIVE popHigher(_, _)
popHigher(s, token) ==
    IF s.stack = <<>> THEN s
    ELSE LET top == Last(s.stack) IN
         IF ~isOperatorChar(top) THEN s
         ELSE IF precedence(top) > precedence(token)
                 \/ (precedence(top) = precedence(token) /\ token \notin rightAssociative)
              THEN popHigher([s EXCEPT !.output = Append(s.output, top),
                                       !.stack = Front(s.stack)], token)
              ELSE s

\* the while loop of ")": pop to the output until "(" is on top
RECURSIVE popToParen(_)
popToParen(s) ==
    IF s.stack # <<>> /\ Last(s.stack) # "("
    THEN popToParen([s EXCEPT !.output = Append(s.output, Last(s.stack)),
                              !.stack = Front(s.stack)])
    ELSE s

\* one iteration of the for loop of toPostfix
toPostfixToken(s, token) ==
    IF isOperandChar(token) THEN [s EXCEPT !.output = Append(s.output, token)]
    ELSE IF isOperatorChar(token)
         THEN LET p == popHigher(s, token) IN [p EXCEPT !.stack = Append(p.stack, token)]
    ELSE IF token = "(" THEN [s EXCEPT !.stack = Append(s.stack, token)]
    ELSE IF token = ")"
         THEN LET p == popToParen(s) IN
              IF p.stack = <<>>
              THEN ConvThrow(p, "Parentesis desbalanceados en conversion a postfix.")
              ELSE [p EXCEPT !.stack = Front(p.stack)]
    ELSE ConvThrow(s, "Caracter no valido en conversion a postfix")

RECURSIVE toPostfixScan(_, _)
toPostfixScan(s, tokens) ==
    IF s.threw \/ tokens = <<>> THEN s
    ELSE toPostfixScan(toPostfixToken(s, Head(tokens)), Tail(tokens))

\* toPostfixDrain with the fault of a missing test for parentheses
RECURSIVE toPostfixDrainUnchecked(_)
toPostfixDrainUnchecked(s) ==
    IF s.threw \/ s.stack = <<>> THEN s
    ELSE toPostfixDrainUnchecked([s EXCEPT !.stack = Front(s.stack),
                                           !.output = Append(s.output, Last(s.stack))])

\* the final while loop: drain the stack
RECURSIVE toPostfixDrain(_)
toPostfixDrain(s) ==
    IF s.threw \/ s.stack = <<>> THEN s
    ELSE LET top == Last(s.stack)
             p == [s EXCEPT !.stack = Front(s.stack)]
         IN  IF top = "(" \/ top = ")"
             THEN ConvThrow(p, "Parentesis desbalanceados al final de la conversion a postfix.")
             ELSE toPostfixDrain([p EXCEPT !.output = Append(p.output, top)])

\* output.join(' ')
RECURSIVE join(_)
join(output) ==
    IF output = <<>> THEN <<>>
    ELSE IF Len(output) = 1 THEN <<output[1]>>
    ELSE <<output[1], " ">> \o join(Tail(output))

\* toPostfix(expr): [threw, error, value]
toPostfix(expr) ==
    LET s == toPostfixDrain(toPostfixScan(ConvInit, expr))
    IN  [threw |-> s.threw, error |-> s.error,
         value |-> IF s.threw THEN <<>> ELSE join(s.output)]

ErrEmpty == "La expresion no puede estar vacia."

ErrChars == "Solo se permiten letras, digitos, operadores y parentesis."

ErrParens == "Parentesis desequilibrados."

ErrConsecutive == "No se permiten operadores consecutivos."

\* AllowedChar with the fault of a pattern that admits every character
AllowedCharAny(c) == c = c

AllowedChar(c) ==
    c \in Letters \cup Digits \cup Whitespace \cup {"(", ")"} \cup {"+", "-", "*", "/", "\\", "^"}

\* the for loop over the characters counting parentheses, with its break
RECURSIVE parenScan(_, _, _)
parenScan(expr, k, st) ==
    IF k > Len(expr) THEN st
    ELSE LET c1 == IF expr[k] = "(" THEN st.parenCount + 1 ELSE st.parenCount
             c2 == IF expr[k] = ")" THEN c1 - 1 ELSE c1
         IN  IF c2 < 0
             THEN [parenCount |-> c2, errors |-> Append(st.errors, ErrParens)]
             ELSE parenScan(expr, k + 1, [st EXCEPT !.parenCount = c2])

operatorPattern(expr) ==
    \E k \in 1..(Len(expr) - 1) : isOperatorChar(expr[k]) /\ isOperatorChar(expr[k + 1])

\* validateExpression on the form's text: [errors, isValid]
validateExpression(expr) ==
    LET e1 == IF trim(expr) = <<>> THEN <<ErrEmpty>> ELSE <<>>
        e2 == IF expr # <<>> /\ \E k \in 1..Len(expr) : ~AllowedChar(expr[k])
              THEN Append(e1, ErrChars) ELSE e1
        ps == parenScan(expr, 1, [parenCount |-> 0, errors |-> e2])
        e3 == IF ps.parenCount # 0 THEN Append(ps.errors, ErrParens) ELSE ps.errors
        e4 == IF operatorPattern(expr) THEN Append(e3, ErrConsecutive) ELSE e3
    IN  [errors |-> e4, isValid |-> (e4 = <<>> /\ trim(expr) # <<>>)]

-----------------------------------------------------------------------------
(* tokenize (both recursive-descent panels) *)

\* runEnd with the fault of ending every run after one character
runEndOne(expr, i, class) == i + 1

RECURSIVE runEnd(_, _, _)
runEnd(expr, j, class) ==
    IF j <= Len(expr) /\ expr[j] \in class THEN runEnd(expr, j + 1, class) ELSE j

\* tokenizeFrom with the fault of skipping an unexpected character
RECURSIVE tokenizeFromSkipping(_, _, _)
tokenizeFromSkipping(expr, i, tokens) ==
    IF i > Len(expr) THEN tokens
    ELSE LET c == expr[i] IN
         IF c \in {"+", "-", "*", "/", "\\", "^", "(", ")"}
         THEN tokenizeFromSkipping(expr, i + 1, Append(tokens, <<c>>))
         ELSE IF c \in Digits
         THEN LET j == runEnd(expr, i, Digits)
              IN  tokenizeFromSkipping(expr, j, Append(tokens, SubSeq(expr, i, j - 1)))
         ELSE IF c \in Letters
         THEN LET j == runEnd(expr, i, Letters)
              IN  tokenizeFromSkipping(expr, j, Append(tokens, SubSeq(expr, i, j - 1)))
         ELSE tokenizeFromSkipping(expr, i + 1, tokens)

RECURSIVE tokenizeFrom(_, _, _)
tokenizeFrom(expr, i, tokens) ==
    IF i > Len(expr) THEN tokens
    ELSE LET c == expr[i] IN
         IF c \in {"+", "-", "*", "/", "\\", "^", "(", ")"}
         THEN tokenizeFrom(expr, i + 1, Append(tokens, <<c>>))
         ELSE IF c \in Digits
         THEN LET j == runEnd(expr, i, Digits)
              IN  tokenizeFrom(expr, j, Append(tokens, SubSeq(expr, i, j - 1)))
         ELSE IF c \in Letters
         THEN LET j == runEnd(expr, i, Letters)
              IN  tokenizeFrom(expr, j, Append(tokens, SubSeq(expr, i, j - 1)))
         ELSE tokenizeFrom(expr, i + 1, Append(tokens, <<c>>))

tokenize(expr) == tokenizeFrom(expr, 1, <<>>)

\* postfix.split(/\s+/).filter(Boolean)
RECURSIVE splitWhitespace(_, _, _)
splitWhitespace(s, cur, tokens) ==
    IF s = <<>> THEN (IF cur = <<>> THEN tokens ELSE Append(tokens, cur))
    ELSE IF Head(s) \in Whitespace
         THEN splitWhitespace(Tail(s), <<>>, IF cur = <<>> THEN tokens ELSE Append(tokens, cur))
         ELSE splitWhitespace(Tail(s), Append(cur, Head(s)), tokens)

-----------------------------------------------------------------------------
(* Memory of one builder call.  heap[r] is the node object named r; left and
   right are names of nodes, NoNode when the property is absent.  arrays[k] is
   the array object named k: arrays[StackArray] is the construction stack
   (stack / virtualStack) and every [...stack] copy is a new array. *)

NoNode == 0

StackArray == 1

Node(id, type, value, left, right) ==
    [id |-> id, type |-> type, value |-> value, left |-> left, right |-> right]

\* the token null of peek() and consume()
NoToken == <<>>

NoResult == [pending |-> TRUE]

Frame(pc) == [pc |-> pc, left |-> NoNode, op |-> NoToken]

NewCall(builder, tokens, frames) ==
    [builder |-> builder, entry |-> "direct", tokens |-> tokens, pos |-> 0, steps |-> <<>>,
     stepCounter |-> 1, heap |-> <<>>, arrays |-> << <<>> >>, frames |-> frames,
     ret |-> NoNode, status |-> "running", result |-> NoResult, seed |-> 0]

Idle ==
    [builder |-> "none", entry |-> "none", tokens |-> <<>>, pos |-> 0, steps |-> <<>>,
     stepCounter |-> 1, heap |-> <<>>, arrays |-> << <<>> >>, frames |-> <<>>,
     ret |-> NoNode, status |-> "idle", result |-> NoResult, seed |-> 0]

Stack(c) == c.arrays[StackArray]

\* new object: the node gets the next name of the heap and is left in ret
NewNode(c, node) == [c EXCEPT !.heap = Append(@, node), !.ret = Len(c.heap) + 1]

\* stack.push(node)
Push(c, r) == [c EXCEPT !.arrays[StackArray] = Append(@, r)]

\* stack.pop() on a non-empty stack
Pop(c) == [c EXCEPT !.arrays[StackArray] = Front(@)]

\* an Error thrown inside the try block: the catch returns the steps array as
\* it is, isValid false and the message
\* Throw with the fault of a catch block that returns an empty steps list
ThrowDropsSteps(c, msg, arg) ==
    [c EXCEPT !.status = "returned", !.frames = <<>>,
              !.result = [steps |-> <<>>, isValid |-> FALSE,
                          errorMessage |-> [msg |-> msg, arg |-> arg]]]

Throw(c, msg, arg) ==
    [c EXCEPT !.status = "returned", !.frames = <<>>,
              !.result = [steps |-> c.steps, isValid |-> FALSE,
                          errorMessage |-> [msg |-> msg, arg |-> arg]]]

ReturnValid(c, tree) ==
    [c EXCEPT !.status = "returned", !.frames = <<>>,
              !.result = [tree |-> tree, steps |-> c.steps, isValid |-> TRUE]]

\* ReturnInvalid with the fault of also returning the bottom of the stack as tree
ReturnInvalidWithTree(c, msg, arg) ==
    [c EXCEPT !.status = "returned", !.frames = <<>>,
              !.result = [tree |-> IF Len(c.arrays[StackArray]) > 0 THEN c.arrays[StackArray][1]
                                   ELSE NoNode,
                          steps |-> c.steps, isValid |-> FALSE,
                          errorMessage |-> [msg |-> msg, arg |-> arg]]]

\* return { steps, isValid: false, errorMessage } without an Error
ReturnInvalid(c, msg, arg) ==
    [c EXCEPT !.status = "returned", !.frames = <<>>,
              !.result = [steps |-> c.steps, isValid |-> FALSE,
                          errorMessage |-> [msg |-> msg, arg |-> arg]]]

\* the outcomes of the random source behind crypto.randomUUID() and Math.random()
IdSeeds == {0, 1}

\* generateId(): a name never drawn before in the call, which depends on the
\* random source and on nothing of the input
generateId(c) == <<"uuid">> \o NumStr(c.seed) \o <<"-">> \o NumStr(Len(c.heap) + 1)

\* RecordStep with the fault of a step counter that is never incremented
RecordStepSameNumber(c, token, action) ==
    [c EXCEPT !.arrays = Append(@, c.arrays[StackArray]),
              !.steps = Append(@, [step |-> c.stepCounter, token |-> token, action |-> action,
                                   stackSnapshot |-> Len(c.arrays) + 1,
                                   currentRoot |-> IF Len(c.arrays[StackArray]) > 0
                                                   THEN c.arrays[StackArray][Len(c.arrays[StackArray])]
                                                   ELSE NoNode])]

\* RecordStep with the fault of storing the live stack array, not a copy of it
RecordStepAlias(c, token, action) ==
    [c EXCEPT !.steps = Append(@, [step |-> c.stepCounter, token |-> token, action |-> action,
                                   stackSnapshot |-> StackArray,
                                   currentRoot |-> IF Len(c.arrays[StackArray]) > 0
                                                   THEN c.arrays[StackArray][Len(c.arrays[StackArray])]
                                                   ELSE NoNode]),
              !.stepCounter = @ + 1]

\* RecordStep with the fault of taking the bottom of the stack as currentRoot
RecordStepBottomRoot(c, token, action) ==
    [c EXCEPT !.arrays = Append(@, c.arrays[StackArray]),
              !.steps = Append(@, [step |-> c.stepCounter, token |-> token, action |-> action,
                                   stackSnapshot |-> Len(c.arrays) + 1,
                                   currentRoot |-> IF Len(c.arrays[StackArray]) > 0
                                                   THEN c.arrays[StackArray][1]
                                                   ELSE NoNode]),
              !.stepCounter = @ + 1]

\* steps.push({step: stepCounter++, token, action, stackSnapshot: [...stack],
\*             currentRoot: top of the stack or undefined})
RecordStep(c, token, action) ==
    [c EXCEPT !.arrays = Append(@, Stack(c)),
              !.steps = Append(@, [step |-> c.stepCounter, token |-> token, action |-> action,
                                   stackSnapshot |-> Len(c.arrays) + 1,
                                   currentRoot |-> IF Len(Stack(c)) > 0 THEN Last(Stack(c))
                                                   ELSE NoNode]),
              !.stepCounter = @ + 1]

-----------------------------------------------------------------------------
(* buildTreeFromPostfix: the stack builder of the postfix panel *)

isOperatorToken(t) == \E k \in 1..Len(ALLOWED_OPERATORS) : t = <<ALLOWED_OPERATORS[k]>>

isOperandToken(t) == t # <<>> /\ \A k \in 1..Len(t) : t[k] \in Letters \cup Digits

isNumberToken(t) == t # <<>> /\ \A k \in 1..Len(t) : t[k] \in Digits

isIdentifierToken(t) == t # <<>> /\ \A k \in 1..Len(t) : t[k] \in Letters

buildStart(postfix) == NewCall("postfix", splitWhitespace(postfix, <<>>, <<>>), <<>>)

\* postfixOperand with the fault of pushing the leaf twice
postfixOperandTwice(c, token) ==
    LET n == NewNode(c, Node(generateId(c),
                             IF isNumberToken(token) THEN "number" ELSE "variable",
                             token, NoNode, NoNode))
    IN  Push(Push(n, n.ret), n.ret)

\* the operand branch: a new leaf is pushed
postfixOperand(c, token) ==
    LET n == NewNode(c, Node(generateId(c),
                             IF isNumberToken(token) THEN "number" ELSE "variable",
                             token, NoNode, NoNode))
    IN  Push(n, n.ret)

\* postfixOperator with the fault of taking the first popped node as left
postfixOperatorSwapped(c, token) ==
    LET left == Last(Stack(c))
        c1 == Pop(c)
        right == Last(Stack(c1))
        c2 == Pop(c1)
        n == NewNode(c2, Node(generateId(c2), "operator", token, left, right))
    IN  Push(n, n.ret)

\* the operator branch on a stack of two or more: right is popped first
\* postfixOperator with the fault of leaving the left operand on the stack
postfixOperatorKeepsLeft(c, token) ==
    LET right == Last(Stack(c))
        c1 == Pop(c)
        left == Last(Stack(c1))
        n == NewNode(c1, Node(generateId(c1), "operator", token, left, right))
    IN  Push(n, n.ret)

postfixOperator(c, token) ==
    LET right == Last(Stack(c))
        c1 == Pop(c)
        left == Last(Stack(c1))
        c2 == Pop(c1)
        n == NewNode(c2, Node(generateId(c2), "operator", token, left, right))
    IN  Push(n, n.ret)

\* the step pushed at the end of an iteration of the for loop
\* postfixStep with the fault of recording the id of the pushed node as token
postfixStepRecordsId(c, token, action) == RecordStep(c, c.heap[Last(Stack(c))].id, action)

postfixStep(c, token, action) == RecordStep(c, token, action)

\* the check after the for loop
\* postfixFinish with the fault of accepting any non-empty final stack
postfixFinishLoose(c) ==
    IF Len(Stack(c)) < 1
    THEN Throw(c, "La pila final no tiene exactamente un nodo. Tamano actual:", NumStr(Len(Stack(c))))
    ELSE ReturnValid(c, Stack(c)[1])

postfixFinish(c) ==
    IF Len(Stack(c)) # 1
    THEN Throw(c, "La pila final no tiene exactamente un nodo. Tamano actual:", NumStr(Len(Stack(c))))
    ELSE ReturnValid(c, Stack(c)[1])

\* one iteration of the for loop, or the code after it
buildStep(c) ==
    IF c.pos < Len(c.tokens)
    THEN LET token == c.tokens[c.pos + 1]
             c1 == [c EXCEPT !.pos = @ + 1]
         IN  IF isOperandToken(token)
             THEN postfixStep(postfixOperand(c1, token), token, "operando")
             ELSE IF isOperatorToken(token)
             THEN IF Len(Stack(c1)) < 2
                  THEN Throw(c1, "Faltan operandos para aplicar el operador", token)
                  ELSE postfixStep(postfixOperator(c1, token), token, "operador")
             ELSE Throw(c1, "Token no reconocido:", token)
    ELSE postfixFinish(c)


-----------------------------------------------------------------------------
(* parseRecursiveInfix, with the virtual stack (builder "vstack") and without
   it (builder "plain").  The recursion parseExpression -> parseTerm ->
   parseFactor is kept as a stack of frames: a frame's pc names the function
   and the call it is waiting for, left and op are its locals, and ret holds
   the node the callee returned. *)

VirtualStack(c) == c.builder = "vstack"

peek(c) == IF c.pos < Len(c.tokens) THEN c.tokens[c.pos + 1] ELSE NoToken

\* consume(expected): null at the end, an Error on another token, else pos++
consume(c, expected) ==
    LET t == peek(c) IN
    IF t = NoToken THEN c
    ELSE IF expected # NoToken /\ t # expected THEN Throw(c, "Se esperaba otro token:", t)
    ELSE [c EXCEPT !.pos = @ + 1]

\* makeStep of the virtual-stack parser: the snapshot is a copy of virtualStack
makeStep(c, token, action) == RecordStep(c, token, action)

\* makeStep of the parser without virtual stack: the step carries currentRoot only
makeStepPlain(c, token, action, currentRoot) ==
    [c EXCEPT !.steps = Append(@, [step |-> c.stepCounter, token |-> token,
                                   action |-> action, currentRoot |-> currentRoot]),
              !.stepCounter = @ + 1]

\* the characters of a NodeType in a template literal
TypeChars(type) ==
    CASE type = "number" -> <<"n", "u", "m", "b", "e", "r">>
      [] type = "variable" -> <<"v", "a", "r", "i", "a", "b", "l", "e">>
      [] type = "operator" -> <<"o", "p", "e", "r", "a", "t", "o", "r">>
      [] type = "unary" -> <<"u", "n", "a", "r", "y">>

\* pushLeaf with the fault of an id without the token position
pushLeafNoPosition(c, value, type) ==
    LET n == NewNode(c, Node(TypeChars(type) \o <<"-">> \o value, type, value, NoNode, NoNode))
    IN  RecordStep([n EXCEPT !.arrays[StackArray] = Append(@, n.ret)], value, "operando")

\* pushLeaf(value, type): id `${type}-${value}-${pos - 1}`
pushLeaf(c, value, type) ==
    LET n == NewNode(c, Node(TypeChars(type) \o <<"-">> \o value \o <<"-">> \o NumStr(c.pos - 1),
                             type, value, NoNode, NoNode))
    IN  makeStep(Push(n, n.ret), value, "operando")

\* the leaf of the parser without virtual stack
plainLeaf(c, value, type) ==
    LET n == NewNode(c, Node(generateId(c), type, value, NoNode, NoNode))
    IN  makeStepPlain(n, value, "nodo hoja", n.ret)

\* virtualStack.pop() ?? fallback
popOr(c, fallback) ==
    IF Len(Stack(c)) > 0 THEN [c EXCEPT !.arrays[StackArray] = Front(@), !.ret = Last(Stack(c))]
    ELSE [c EXCEPT !.ret = fallback]

\* combineOperator with the fault of popping the left operand first
combineOperatorSwapped(c, op, leftNode, rightNode) ==
    LET c1 == popOr(c, leftNode)
        left == c1.ret
        c2 == popOr(c1, rightNode)
        right == c2.ret
    IN  IF left = NoNode \/ right = NoNode
        THEN Throw(c2, "Faltan operandos para el operador", op)
        ELSE LET n == NewNode(c2, Node(op \o <<":">> \o c2.heap[left].id \o <<":">> \o c2.heap[right].id,
                                      "operator", op, left, right))
             IN  makeStep(Push(n, n.ret), op, "operador")

\* combineOperator(op, leftNode, rightNode): the operands are taken from the
\* virtual stack when it has them
combineOperator(c, op, leftNode, rightNode) ==
    LET c1 == popOr(c, rightNode)
        right == c1.ret
        c2 == popOr(c1, leftNode)
        left == c2.ret
    IN  IF left = NoNode \/ right = NoNode
        THEN Throw(c2, "Faltan operandos para el operador", op)
        ELSE LET n == NewNode(c2, Node(op \o <<":">> \o c2.heap[left].id \o <<":">> \o c2.heap[right].id,
                                      "operator", op, left, right))
             IN  makeStep(Push(n, n.ret), op, "operador")

\* the operator node of the parser without virtual stack
plainOperator(c, op, left, right) ==
    LET n == NewNode(c, Node(generateId(c), "operator", op, left, right))
    IN  makeStepPlain(n, op, "nodo operador", n.ret)

\* unaryVirtual with the fault of storing the operand in the left slot
unaryVirtualLeftSlot(c, right) ==
    LET n == NewNode(c, Node(<<"n", "e", "g", "-">> \o c.heap[right].id, "unary", <<"n", "e", "g">>,
                             right, NoNode))
    IN  makeStep(Push(n, n.ret), <<"N", "E", "G">>, "nodo unario")

\* the unary branch of parseFactor after its operand: the NEG node is pushed
\* on the virtual stack and its operand is not popped
unaryVirtual(c, right) ==
    LET n == NewNode(c, Node(<<"n", "e", "g", "-">> \o c.heap[right].id, "unary", <<"n", "e", "g">>,
                             NoNode, right))
    IN  makeStep(Push(n, n.ret), <<"N", "E", "G">>, "nodo unario")

\* unaryPlain with the fault of storing the operand in the left slot
unaryPlainLeftSlot(c, right) ==
    LET n == NewNode(c, Node(generateId(c), "unary", <<"n", "e", "g">>, right, NoNode))
    IN  makeStepPlain(n, <<"N", "E", "G">>, "nodo unario", n.ret)

unaryPlain(c, right) ==
    LET n == NewNode(c, Node(generateId(c), "unary", <<"n", "e", "g">>, NoNode, right))
    IN  makeStepPlain(n, <<"N", "E", "G">>, "nodo unario", n.ret)

leafNode(c, value, type) ==
    IF VirtualStack(c) THEN pushLeaf(c, value, type) ELSE plainLeaf(c, value, type)

operatorNode(c, op, left, right) ==
    IF VirtualStack(c) THEN combineOperator(c, op, left, right)
    ELSE plainOperator(c, op, left, right)

unaryNode(c, right) ==
    IF VirtualStack(c) THEN unaryVirtual(c, right) ELSE unaryPlain(c, right)

\* closeStep with the fault of pushing the subexpression's node again
closeStepPushes(c, node) ==
    LET s == IF VirtualStack(c) THEN makeStep(Push(c, node), <<"(", ")">>, "subexpresion")
             ELSE makeStepPlain(c, <<"(", ")">>, "subexpresion", node)
    IN  [s EXCEPT !.ret = node]

\* the step recorded after ")": the stack is not touched
closeStep(c, node) ==
    LET s == IF VirtualStack(c) THEN makeStep(c, <<"(", ")">>, "subexpresion")
             ELSE makeStepPlain(c, <<"(", ")">>, "subexpresion", node)
    IN  [s EXCEPT !.ret = node]


\* the running function keeps frame f and calls callee
Invoke(c, f, callee) == [c EXCEPT !.frames = Front(@) \o <<f, Frame(callee)>>]

\* the running function returns node
Return(c, node) == [c EXCEPT !.frames = Front(@), !.ret = node]

\* expressionLoop with the fault of leaving the operator unconsumed
expressionLoopNoConsume(c, left) ==
    IF peek(c) \in {<<"+">>, <<"-">>}
    THEN Invoke(c, [pc |-> "parseExpression:right", left |-> left, op |-> peek(c)], "parseTerm")
    ELSE Return(c, left)

\* while (peek() === '+' || peek() === '-') of parseExpression, with left
expressionLoop(c, left) ==
    IF peek(c) \in {<<"+">>, <<"-">>}
    THEN Invoke(consume(c, NoToken),
                [pc |-> "parseExpression:right", left |-> left, op |-> peek(c)], "parseTerm")
    ELSE Return(c, left)

\* while (peek() === '*' || peek() === '/' || peek() === '\\') of parseTerm
termLoop(c, left) ==
    IF peek(c) \in {<<"*">>, <<"/">>, <<"\\">>}
    THEN Invoke(consume(c, NoToken),
                [pc |-> "parseTerm:right", left |-> left, op |-> peek(c)], "parseFactor")
    ELSE Return(c, left)

\* if (peek() === '^') { consume('^'); expR = parseFactor(); ... } return base
exponentTail(c, base) ==
    IF c.status = "returned" THEN c
    ELSE IF peek(c) = <<"^">>
    THEN Invoke(consume(c, <<"^">>),
                [pc |-> "parseFactor:exponent", left |-> base, op |-> <<"^">>], "parseFactor")
    ELSE Return(c, base)

\* parseFactor from its first line to its first call or return
parseFactor(c) ==
    LET t == peek(c) IN
    IF t = NoToken
    THEN Throw(c, IF VirtualStack(c) THEN "Expresion incompleta (factor faltante)."
                  ELSE "Expresion incompleta (se esperaba un factor).", NoToken)
    ELSE IF t = <<"-">>
    THEN Invoke(consume(c, <<"-">>), Frame("parseFactor:unary"), "parseFactor")
    ELSE IF t = <<"(">>
    THEN Invoke(consume(c, <<"(">>), Frame("parseFactor:paren"), "parseExpression")
    ELSE IF isNumberToken(t)
    THEN LET l == leafNode(consume(c, NoToken), t, "number") IN exponentTail(l, l.ret)
    ELSE IF isIdentifierToken(t)
    THEN LET l == leafNode(consume(c, NoToken), t, "variable") IN exponentTail(l, l.ret)
    ELSE Throw(c, IF VirtualStack(c) THEN "Token invalido:" ELSE "Token no valido en factor:", t)

\* parseFactor after parseExpression returned inside parentheses
\* parseFactorParen with the fault of a missing test for ")"
parseFactorParenUnchecked(c) ==
    LET d == consume(c, <<")">>) IN
    IF d.status = "returned" THEN d
    ELSE LET s == closeStep(d, c.ret) IN exponentTail(s, s.ret)

parseFactorParen(c) ==
    IF peek(c) # <<")">>
    THEN Throw(c, IF VirtualStack(c) THEN "Parentesis no cerrado." ELSE "Parentesis sin cerrar.",
               NoToken)
    ELSE LET s == closeStep(consume(c, <<")">>), c.ret) IN exponentTail(s, s.ret)

\* the code of parseRecursiveInfix after parseExpression returned root
parseFinish(c) ==
    LET root == c.ret IN
    IF peek(c) # NoToken
    THEN Throw(c, "Tokens sobrantes despues del parseo:", peek(c))
    ELSE IF VirtualStack(c)
    THEN IF Len(Stack(c)) # 1
         THEN ReturnInvalid(c, "La pila final no tiene un unico nodo (size)", NumStr(Len(Stack(c))))
         ELSE LET d == makeStep(c, <<"D", "O", "N", "E">>, "finalizada")
              IN  ReturnValid(d, Stack(d)[1])
    ELSE LET d == makeStepPlain(c, <<"D", "O", "N", "E">>, "completo", root)
         IN  ReturnValid(d, root)

parseStart(builder, expr) ==
    NewCall(builder, tokenize(expr), <<Frame("main"), Frame("parseExpression")>>)

\* one step of the parser: the top frame runs to its next call or return
parseStep(c) ==
    LET f == Last(c.frames) IN
    CASE f.pc = "parseExpression" ->
            Invoke(c, Frame("parseExpression:left"), "parseTerm")
      [] f.pc = "parseExpression:left" -> expressionLoop(c, c.ret)
      [] f.pc = "parseExpression:right" ->
            LET n == operatorNode(c, f.op, f.left, c.ret)
            IN  IF n.status = "returned" THEN n ELSE expressionLoop(n, n.ret)
      [] f.pc = "parseTerm" ->
            Invoke(c, Frame("parseTerm:left"), "parseFactor")
      [] f.pc = "parseTerm:left" -> termLoop(c, c.ret)
      [] f.pc = "parseTerm:right" ->
            LET n == operatorNode(c, f.op, f.left, c.ret)
            IN  IF n.status = "returned" THEN n ELSE termLoop(n, n.ret)
      [] f.pc = "parseFactor" -> parseFactor(c)
      [] f.pc = "parseFactor:unary" ->
            LET n == unaryNode(c, c.ret) IN exponentTail(n, n.ret)
      [] f.pc = "parseFactor:paren" -> parseFactorParen(c)
      [] f.pc = "parseFactor:exponent" ->
            LET n == operatorNode(c, f.op, f.left, c.ret)
            IN  IF n.status = "returned" THEN n ELSE Return(n, n.ret)
      [] f.pc = "main" -> parseFinish(c)

-----------------------------------------------------------------------------
(* A builder call run to its return *)

callStep(c) == IF c.builder = "postfix" THEN buildStep(c) ELSE parseStep(c)

RECURSIVE runCall(_)
runCall(c) == IF c.status = "returned" THEN c ELSE runCall(callStep(c))

buildTreeFromPostfix(postfix) == runCall(buildStart(postfix))

parseRecursiveInfix(builder, expr) == runCall(parseStart(builder, expr))

\* the shape of the tree under node r: its type, value and children's shapes
RECURSIVE Shape(_, _)
Shape(heap, r) ==
    IF r = NoNode THEN <<>>
    ELSE <<heap[r].type, heap[r].value, Shape(heap, heap[r].left), Shape(heap, heap[r].right)>>

\* treeToPostfix: post-order, left then right then the node's value
RECURSIVE treeToPostfixTokens(_, _)
treeToPostfixTokens(heap, r) ==
    IF r = NoNode THEN <<>>
    ELSE treeToPostfixTokens(heap, heap[r].left) \o treeToPostfixTokens(heap, heap[r].right)
         \o <<heap[r].value>>


-----------------------------------------------------------------------------
(* ExpressionStateService and the panel subscribed to expression$ *)

\* the value null of the BehaviorSubject
Null == [rawExpression |-> <<"null">>, normalizedExpression |-> <<>>, postfix |-> <<>>]

ExpressionInputModel(raw, normalized, postfix) ==
    [rawExpression |-> raw, normalizedExpression |-> normalized, postfix |-> postfix]

NoExpression ==
    [steps |-> <<>>, isValid |-> FALSE,
     errorMessage |-> [msg |-> "No hay expresion disponible. Ingresa una expresion valida en el Paso 1.",
                       arg |-> NoToken]]

PanelOf(c) ==
    [parseResult |-> c.result, heap |-> c.heap, arrays |-> c.arrays, currentStepIndex |-> 0]

EmptyPanel ==
    [parseResult |-> NoExpression, heap |-> <<>>, arrays |-> << <<>> >>, currentStepIndex |-> 0]

\* the panel's fields as their initialisers leave them, before ngOnInit
InitialPanel ==
    [parseResult |-> [steps |-> <<>>, isValid |-> FALSE], heap |-> <<>>, arrays |-> << <<>> >>,
     currentStepIndex |-> 0, expressionModel |-> Null]

\* this.expressionModel = model, with the fields q the callback assigns after it
WithModel(q, model) ==
    [parseResult |-> q.parseResult, heap |-> q.heap, arrays |-> q.arrays,
     currentStepIndex |-> q.currentStepIndex, expressionModel |-> model]

\* subscribePostfix with the fault of a missing else branch
subscribePostfixKeepsResult(p, model) ==
    IF model # Null /\ trim(model.postfix) # <<>>
    THEN WithModel(PanelOf(buildTreeFromPostfix(model.postfix)), model)
    ELSE WithModel(p, model)

\* the callback of the postfix panel's subscription to expression$, run on
\* the panel p
subscribePostfix(p, model) ==
    IF model # Null /\ trim(model.postfix) # <<>>
    THEN WithModel(PanelOf(buildTreeFromPostfix(model.postfix)), model)
    ELSE WithModel(EmptyPanel, model)

\* the callback of the virtual-stack panel's subscription to expression$
subscribeRecursive(p, model) ==
    LET expr == IF model = Null THEN <<>> ELSE trim(model.normalizedExpression)
    IN  IF Len(expr) > 0 THEN WithModel(PanelOf(parseRecursiveInfix("vstack", expr)), model)
        ELSE WithModel(EmptyPanel, model)

\* expressionSubject.next(value): the subscriber's callback runs at once
next(v, p, value) ==
    IF v = "postfix" THEN subscribePostfix(p, value) ELSE subscribeRecursive(p, value)

\* ExpressionStateService: the value each method leaves in expressionSubject
setExpression(model) == model

\* clear with the fault of publishing an empty model in place of null
clearEmptyModel == ExpressionInputModel(<<>>, <<>>, <<>>)

clear == Null

getCurrent == subject

totalSteps == Len(panel.parseResult.steps)

\* what the accessor currentTree hands to the view: nothing, a node of the
\* builder, or a new object with isVirtual and the snapshot as children
Nothing == [kind |-> "undefined"]

TheNode(r) == [kind |-> "node", node |-> r]

VirtualRoot(children) ==
    [kind |-> "object", id |-> "virtual-root", type |-> "operator", value |-> <<>>,
     isVirtual |-> TRUE, children |-> children]

\* currentTree with the fault of wrapping a snapshot of one node too
currentTreeAlwaysWraps(p) ==
    IF p.parseResult.steps = <<>>
    THEN IF "tree" \in DOMAIN p.parseResult THEN TheNode(p.parseResult.tree) ELSE Nothing
    ELSE LET step == p.parseResult.steps[p.currentStepIndex + 1] IN
         IF "stackSnapshot" \notin DOMAIN step \/ p.arrays[step.stackSnapshot] = <<>>
         THEN Nothing
         ELSE VirtualRoot(p.arrays[step.stackSnapshot])

\* get currentTree() of panel p
currentTree(p) ==
    IF p.parseResult.steps = <<>>
    THEN IF "tree" \in DOMAIN p.parseResult THEN TheNode(p.parseResult.tree) ELSE Nothing
    ELSE LET step == p.parseResult.steps[p.currentStepIndex + 1] IN
         IF "stackSnapshot" \notin DOMAIN step \/ p.arrays[step.stackSnapshot] = <<>>
         THEN Nothing
         ELSE IF Len(p.arrays[step.stackSnapshot]) = 1
         THEN TheNode(p.arrays[step.stackSnapshot][1])
         ELSE VirtualRoot(p.arrays[step.stackSnapshot])

-----------------------------------------------------------------------------
(* The handlers of ExpressionInputComponent and of the panel *)

\* form.patchValue / typing: valueChanges runs validateExpression
setExpressionText(text, handler) ==
    /\ expression' = text
    /\ validationErrors' = validateExpression(text).errors
    /\ isValid' = validateExpression(text).isValid
    /\ lastCall' = handler
    /\ UNCHANGED <<version, subject, panel, input, call, calls>>

typeChar(ch) ==
    /\ Len(expression) < MaxText
    /\ setExpressionText(Append(expression, ch), "input")

addOperator(operator) ==
    /\ Len(expression) < MaxText
    /\ setExpressionText(Append(expression, operator), "addOperator")

useRandomExample ==
    \E k \in 1..Len(EXAMPLE_EXPRESSIONS) :
        setExpressionText(EXAMPLE_EXPRESSIONS[k], "useRandomExample")

clearExpression ==
    /\ expression' = <<>>
    /\ validationErrors' = validateExpression(<<>>).errors
    /\ isValid' = validateExpression(<<>>).isValid
    /\ subject' = clear
    /\ panel' = next(version, panel, clear)
    /\ lastCall' = "clearExpression"
    /\ UNCHANGED <<version, input, call, calls>>

\* what submit() builds after a successful validation: the model, or the
\* Error toPostfix threw (the revision without postfix publishes postfix '')
submitModel(v, text) ==
    LET normalizedExpression == normalizeExpression(text)
        conversion == IF v = "postfix" THEN toPostfix(normalizedExpression)
                      ELSE [threw |-> FALSE, error |-> "", value |-> <<>>]
    IN  [threw |-> conversion.threw, error |-> conversion.error,
         model |-> ExpressionInputModel(text, normalizedExpression, conversion.value)]

\* whether submit() reaches expressionState.setExpression(model)
\* submitPublishes with the fault of a missing test of isValid
submitPublishesUnchecked(v, valid, text) == ~submitModel(v, text).threw

submitPublishes(v, valid, text) == valid /\ ~submitModel(v, text).threw

submit ==
    IF submitPublishes(version, isValid, expression)
    THEN \* expressionState.setExpression(model)
         /\ subject' = setExpression(submitModel(version, expression).model)
         /\ panel' = next(version, panel, setExpression(submitModel(version, expression).model))
         /\ lastCall' = "submit:published"
         /\ UNCHANGED <<version, expression, validationErrors, isValid, input, call, calls>>
    ELSE IF ~isValid
    THEN \* validateExpression(); return
         /\ validationErrors' = validateExpression(expression).errors
         /\ isValid' = validateExpression(expression).isValid
         /\ lastCall' = "submit:invalid"
         /\ UNCHANGED <<version, expression, subject, panel, input, call, calls>>
    ELSE \* the catch block: the conversion error is shown
         /\ validationErrors' = <<submitModel(version, expression).error>>
         /\ isValid' = FALSE
         /\ lastCall' = "submit:error"
         /\ UNCHANGED <<version, expression, subject, panel, input, call, calls>>

navigate(index, handler) ==
    /\ panel' = [panel EXCEPT !.currentStepIndex = index]
    /\ lastCall' = handler
    /\ UNCHANGED <<version, expression, validationErrors, isValid, subject, input, call, calls>>

goFirst == navigate(IF totalSteps # 0 THEN 0 ELSE panel.currentStepIndex, "goFirst")

goPrev ==
    navigate(IF panel.currentStepIndex > 0 THEN panel.currentStepIndex - 1
             ELSE panel.currentStepIndex, "goPrev")

\* goNext with the fault of a missing test for the last step
goNextUnbounded == navigate(panel.currentStepIndex + 1, "goNext")

goNext ==
    navigate(IF panel.currentStepIndex < totalSteps - 1 THEN panel.currentStepIndex + 1
             ELSE panel.currentStepIndex, "goNext")

goLast == navigate(IF totalSteps # 0 THEN totalSteps - 1 ELSE panel.currentStepIndex, "goLast")

-----------------------------------------------------------------------------
(* The application: the form, the store and the panel *)

Init ==
    /\ version \in {"postfix", "recursive"}
    /\ expression = <<>>
    /\ validationErrors = validateExpression(<<>>).errors
    /\ isValid = validateExpression(<<>>).isValid
    /\ subject = Null
    /\ panel = next(version, InitialPanel, Null)
    /\ lastCall = "ngOnInit"
    /\ input = <<>>
    /\ call = Idle
    /\ calls = <<>>

Next ==
    \/ \E ch \in TypedChars : typeChar(ch)
    \/ \E operator \in PressedOperators : addOperator(operator)
    \/ useRandomExample
    \/ clearExpression
    \/ submit
    \/ goFirst
    \/ goPrev
    \/ goNext
    \/ goLast

Spec == Init /\ [][Next]_vars

-----------------------------------------------------------------------------
(* Builder calls, one step at a time, on every short input and the examples *)

Inputs ==
    TextsUpTo(ExprChars, MaxLen) \cup TextsUpTo(ExprChars \cup OtherChars, MaxOther)
        \cup Chains(MaxOps) \cup Examples \cup Scenarios

InitCalls ==
    /\ version = "postfix"
    /\ expression = <<>>
    /\ validationErrors = validateExpression(<<>>).errors
    /\ isValid = validateExpression(<<>>).isValid
    /\ subject = Null
    /\ panel = next("postfix", InitialPanel, Null)
    /\ lastCall = "ngOnInit"
    /\ input \in Inputs
    /\ call = Idle
    /\ calls = <<>>

\* buildTreeFromPostfix(input) is called
buildCalled ==
    /\ call.status = "idle"
    /\ \E seed \in IdSeeds : call' = [buildStart(input) EXCEPT !.seed = seed]
    /\ UNCHANGED <<input, calls, uiVars>>

\* parseRecursiveInfix(input) is called, of the panel with or without virtual stack
parseCalled(builder) ==
    /\ call.status = "idle"
    /\ call' = parseStart(builder, input)
    /\ UNCHANGED <<input, calls, uiVars>>

\* the panel's subscription gets a submitted model of input and calls its builder
submitted(v, builder) ==
    /\ call.status = "idle"
    /\ submitPublishes(v, validateExpression(input).isValid, input)
    /\ LET model == submitModel(v, input).model IN
       IF builder = "postfix"
       THEN /\ trim(model.postfix) # <<>>
            /\ \E seed \in IdSeeds :
                  call' = [buildStart(model.postfix) EXCEPT !.entry = "submit", !.seed = seed]
       ELSE /\ trim(model.normalizedExpression) # <<>>
            /\ call' = [parseStart(builder, trim(model.normalizedExpression))
                           EXCEPT !.entry = "submit"]
    /\ UNCHANGED <<input, calls, uiVars>>

\* toPostfix(input) is called and returns or throws
toPostfixCalled ==
    /\ call.status = "idle"
    /\ call' = [Idle EXCEPT !.builder = "toPostfix", !.entry = "direct",
                            !.status = "returned", !.result = toPostfix(input)]
    /\ UNCHANGED <<input, calls, uiVars>>

\* the called builder runs to its next step or to its return
callAdvances ==
    /\ call.status = "running"
    /\ call' = callStep(call)
    /\ UNCHANGED <<input, calls, uiVars>>

NextCalls ==
    \/ buildCalled
    \/ toPostfixCalled
    \/ \E builder \in {"vstack", "plain"} : parseCalled(builder)
    \/ submitted("postfix", "postfix")
    \/ \E builder \in {"vstack", "plain"} : submitted("recursive", builder)
    \/ callAdvances

SpecCalls == InitCalls /\ [][NextCalls]_vars

-----------------------------------------------------------------------------
(* Builder calls that are not left unfinished: a called function runs until *)
(* it returns, nothing suspends it.                                         *)

RunInputs == TextsUpTo(ExprChars, MaxRun) \cup Examples \cup Scenarios

InitRuns ==
    /\ version = "postfix"
    /\ expression = <<>>
    /\ validationErrors = validateExpression(<<>>).errors
    /\ isValid = validateExpression(<<>>).isValid
    /\ subject = Null
    /\ panel = next("postfix", InitialPanel, Null)
    /\ lastCall = "ngOnInit"
    /\ input \in RunInputs
    /\ call = Idle
    /\ calls = <<>>

SpecRuns == InitRuns /\ [][NextCalls]_vars /\ WF_vars(callAdvances)

-----------------------------------------------------------------------------
(* Two builder calls side by side: each has its own tokens, pos, stack,     *)
(* steps and stepCounter, all of them locals of the called function.        *)

\* the texts given to the two calls: an infix example, a right-associative
\* chain, a unary minus, an unclosed parenthesis and a postfix text
PairTexts ==
    {EXAMPLE_EXPRESSIONS[1], SCENARIOS[2], SCENARIOS[5], SCENARIOS[7],
     <<"a", " ", "b", " ", "+">>}

PairBuilders == {"postfix", "vstack", "plain"}

startOf(builder, expr) ==
    IF builder = "postfix" THEN buildStart(expr) ELSE parseStart(builder, expr)

\* callStepAmong with the fault of a step counter shared by the calls
callStepSharedCounter(c, other) ==
    callStep([c EXCEPT !.stepCounter = Len(c.steps) + Len(other.steps) + 1])

\* one step of a call while another call is in progress: it reads and
\* writes its own locals only
callStepAmong(c, other) == callStep(c)

InitPair ==
    /\ version = "postfix"
    /\ expression = <<>>
    /\ validationErrors = validateExpression(<<>>).errors
    /\ isValid = validateExpression(<<>>).isValid
    /\ subject = Null
    /\ panel = next("postfix", InitialPanel, Null)
    /\ lastCall = "ngOnInit"
    /\ input \in PairTexts
    /\ call = Idle
    /\ calls = <<>>

\* a builder is called on input, and a builder on another text before the
\* first call has returned
pairCalled(first, second, expr) ==
    /\ calls = <<>>
    /\ calls' = << [expr |-> input, run |-> startOf(first, input)],
                   [expr |-> expr, run |-> startOf(second, expr)] >>
    /\ UNCHANGED <<input, call, uiVars>>

\* the i-th of the calls runs to its next step or to its return
pairAdvances(i) ==
    /\ i \in 1..Len(calls)
    /\ calls[i].run.status = "running"
    /\ calls' = [calls EXCEPT ![i].run = callStepAmong(calls[i].run, calls[3 - i].run)]
    /\ UNCHANGED <<input, call, uiVars>>

NextPair ==
    \/ \E first \in PairBuilders, second \in PairBuilders, expr \in PairTexts :
          pairCalled(first, second, expr)
    \/ \E i \in {1, 2} : pairAdvances(i)

SpecPair == InitPair /\ [][NextPair]_vars


-----------------------------------------------------------------------------
(* Properties *)

Returned(builders) == call.status = "returned" /\ call.builder \in builders

PostfixTokens(text) == splitWhitespace(toPostfix(normalizeExpression(text)).value, <<>>, <<>>)

\* a "-" right after an operator character: a unary minus next to a binary operator
UnaryMinusAdjacent(x) == \E k \in 2..Len(x) : x[k] = "-" /\ isOperatorChar(x[k - 1])

\* the array a step's stackSnapshot names, in the memory of call c
SnapshotOf(c, step) == c.arrays[step.stackSnapshot]

\* C1: for every expression the validator accepts, with no unary minus next to
\* a binary operator, on which the recursive-descent builder succeeds, the
\* post-order of the returned tree is token for token the output of toPostfix.
C1_RoundTrip ==
    (/\ Returned({"plain"})
     /\ call.entry = "submit"
     /\ call.result.isValid
     /\ ~UnaryMinusAdjacent(normalizeExpression(input)))
    => treeToPostfixTokens(call.heap, call.result.tree) = PostfixTokens(input)

\* C2: for every text validateExpression accepts, buildTreeFromPostfix on the
\* postfix of its normalized form returns isValid = true and a tree whose
\* post-order is token for token that postfix.
C2_PostfixPipeline ==
    (Returned({"postfix"}) /\ call.entry = "submit")
    => /\ call.result.isValid
       /\ treeToPostfixTokens(call.heap, call.result.tree) = PostfixTokens(input)

\* C3: after a successful parse of buildTreeFromPostfix or of the
\* virtual-stack parser, the stackSnapshot of the last step has exactly one
\* element, and it is the node returned as tree.
C3_FinalSnapshotIsTree ==
    (Returned({"postfix", "vstack"}) /\ call.result.isValid)
    => /\ call.result.steps # <<>>
       /\ SnapshotOf(call, Last(call.result.steps)) = <<call.result.tree>>

C3_Witness ==
    /\ Returned({"vstack"})
    /\ call.result.isValid
    /\ Len(call.result.steps) >= 4
    /\ call.heap[call.result.tree].type = "operator"

\* C4: in the result of any run, successful or failed, of either builder the
\* step numbers are 1, 2, ..., N in list order.
C4_StepNumbers ==
    Returned({"postfix", "vstack"})
    => \A k \in 1..Len(call.result.steps) : call.result.steps[k].step = k

C4_Witness ==
    /\ Returned({"postfix"})
    /\ ~call.result.isValid
    /\ Len(call.result.steps) >= 3

\* C5: during a call of either builder a recorded step never changes (its
\* number, its token, the nodes of its stackSnapshot and the shape of their
\* subtrees), and the steps list only grows at its end.
C5_TraceAppendOnly ==
    [][(call.status = "running" /\ call.builder \in {"postfix", "vstack"})
       => /\ IsPrefix(call.steps, call'.steps)
          /\ \A k \in 1..Len(call.steps) :
                /\ Len(call'.steps) >= k
                /\ call'.steps[k].step = call.steps[k].step
                /\ call'.steps[k].token = call.steps[k].token
                /\ SnapshotOf(call', call'.steps[k]) = SnapshotOf(call, call.steps[k])
                /\ \A j \in 1..Len(SnapshotOf(call, call.steps[k])) :
                      Shape(call'.heap, SnapshotOf(call', call'.steps[k])[j])
                        = Shape(call.heap, SnapshotOf(call, call.steps[k])[j])
          /\ (call'.status = "returned" => IsPrefix(call.steps, call'.result.steps))]_vars

\* an operator step was recorded after leaf steps: the stack was popped after
\* the earlier snapshots were taken
C5_Witness ==
    /\ call.status = "running"
    /\ call.builder \in {"postfix", "vstack"}
    /\ Len(call.steps) >= 3
    /\ Len(SnapshotOf(call, call.steps[3])) < Len(SnapshotOf(call, call.steps[2]))

\* C6: every result of buildTreeFromPostfix or of the virtual-stack parser has
\* a tree exactly when isValid is true and an errorMessage exactly when
\* isValid is false.
C6_TreeIffValid ==
    Returned({"postfix", "vstack"})
    => /\ ("tree" \in DOMAIN call.result) <=> call.result.isValid
       /\ ("errorMessage" \in DOMAIN call.result) <=> ~call.result.isValid

\* the virtual-stack parser returns invalid because its stack holds two nodes
C6_Witness ==
    /\ Returned({"vstack"})
    /\ ~call.result.isValid
    /\ Len(Stack(call)) = 2
    /\ call.pos = Len(call.tokens)

\* the number of nodes on the stack after the first k tokens of a postfix
\* token list whose tokens are all processed
RECURSIVE DepthAfter(_, _)
DepthAfter(tokens, k) ==
    IF k = 0 THEN 0
    ELSE IF isOperandToken(tokens[k]) THEN DepthAfter(tokens, k - 1) + 1
    ELSE DepthAfter(tokens, k - 1) - 1

\* token k cannot be processed: an operator on fewer than two nodes, or
\* neither an operand nor an operator
BadToken(tokens, k) ==
    \/ (isOperatorToken(tokens[k]) /\ DepthAfter(tokens, k - 1) < 2)
    \/ (~isOperandToken(tokens[k]) /\ ~isOperatorToken(tokens[k]))

FirstBad(tokens) ==
    IF \E k \in 1..Len(tokens) : BadToken(tokens, k)
    THEN CHOOSE k \in 1..Len(tokens) :
            BadToken(tokens, k) /\ \A j \in 1..(k - 1) : ~BadToken(tokens, j)
    ELSE 0

\* C7: when token k is the first that cannot be processed, the result of
\* buildTreeFromPostfix is invalid with a message and exactly the k-1 steps
\* of the tokens before it; when all N tokens are processed and the stack
\* does not hold exactly one node, the result is invalid with all N steps.
C7_PartialTrace ==
    Returned({"postfix"})
    => LET tokens == call.tokens
           bad == FirstBad(tokens)
           result == call.result
       IN  /\ bad > 0
              => /\ ~result.isValid
                 /\ "errorMessage" \in DOMAIN result
                 /\ Len(result.steps) = bad - 1
                 /\ \A k \in 1..(bad - 1) : result.steps[k].token = tokens[k]
           /\ (bad = 0 /\ DepthAfter(tokens, Len(tokens)) # 1)
              => /\ ~result.isValid
                 /\ "errorMessage" \in DOMAIN result
                 /\ Len(result.steps) = Len(tokens)
                 /\ \A k \in 1..Len(tokens) : result.steps[k].token = tokens[k]

\* the fourth token is an operator that finds one node: three steps are kept
C7_Witness ==
    /\ Returned({"postfix"})
    /\ FirstBad(call.tokens) = 4
    /\ isOperatorToken(call.tokens[4])
    /\ Len(call.result.steps) = 3

RecursiveBuilders == {"vstack", "plain"}

Failure(result, messages) ==
    /\ "isValid" \in DOMAIN result
    /\ ~result.isValid
    /\ "errorMessage" \in DOMAIN result
    /\ result.errorMessage.msg \in messages

\* C8: a call of the recursive-descent builder always ends with a ParseResult;
\* when ")" is missing after the expression that follows "(", when tokens
\* remain after a complete expression, or when a factor starts with an
\* invalid token, the result is invalid with the matching message and
\* exactly the steps recorded before the failure.
C8_FailuresReturned ==
    [][(call.status = "running" /\ call.builder \in RecursiveBuilders)
       => LET f == Last(call.frames)
              t == peek(call)
          IN  /\ call'.status \in {"running", "returned"}
              /\ call'.status = "returned"
                 => /\ "isValid" \in DOMAIN call'.result
                    /\ ~call'.result.isValid
                       => /\ "errorMessage" \in DOMAIN call'.result
                          /\ call'.result.steps = call.steps
              /\ (f.pc = "parseFactor:paren" /\ t # <<")">>)
                 => /\ call'.status = "returned"
                    /\ Failure(call'.result, {"Parentesis no cerrado.", "Parentesis sin cerrar."})
              /\ (f.pc = "main" /\ t # NoToken)
                 => /\ call'.status = "returned"
                    /\ Failure(call'.result, {"Tokens sobrantes despues del parseo:"})
              /\ (/\ f.pc = "parseFactor"
                  /\ t \notin {NoToken, <<"-">>, <<"(">>}
                  /\ ~isNumberToken(t)
                  /\ ~isIdentifierToken(t))
                 => /\ call'.status = "returned"
                    /\ Failure(call'.result, {"Token invalido:", "Token no valido en factor:"})]_vars

\* "(a+2": the parenthesis is not closed, and the three steps a, 2, + are kept
C8_Witness ==
    /\ Returned({"vstack"})
    /\ call.tokens = << <<"(">>, <<"a">>, <<"+">>, <<"2">> >>
    /\ Failure(call.result, {"Parentesis no cerrado."})
    /\ Len(call.result.steps) = 3

\* C9: a text whose normalized form has two adjacent operator characters is
\* reported invalid by validateExpression, and no model of such a text is
\* published to ExpressionStateService.
C9_AdjacentOperatorsRejected ==
    /\ operatorPattern(normalizeExpression(expression)) => ~isValid
    /\ subject # Null => ~operatorPattern(subject.normalizedExpression)

\* C10: a submit() that finds isValid false, or in which toPostfix throws,
\* leaves the stored model and the panel's parseResult and currentStepIndex
\* as they were.
C10_SubmitInvalidNoChange ==
    [][(/\ lastCall' \in {"submit:invalid", "submit:error", "submit:published"}
        /\ (~isValid \/ submitModel(version, expression).threw))
       => (subject' = subject /\ panel' = panel)]_vars

\* an invalid text is submitted while an earlier model is stored and parsed
C10_Witness ==
    /\ lastCall = "submit:invalid"
    /\ ~isValid
    /\ subject # Null
    /\ panel.parseResult.isValid

\* the nesting depth of position k of x: "(" minus ")" among x[1..k-1]
ParenDepth(x, k) ==
    Cardinality({j \in 1..(k - 1) : x[j] = "("}) - Cardinality({j \in 1..(k - 1) : x[j] = ")"})

\* the positions of x that hold an operator of ops outside every parenthesis
TopLevel(x, ops) == {k \in 1..Len(x) : x[k] \in ops /\ ParenDepth(x, k) = 0}

Max(S) == CHOOSE k \in S : \A j \in S : j <= k

Min(S) == CHOOSE k \in S : \A j \in S : k <= j

\* the operator at which the expression x splits: the last + or - outside
\* parentheses, else the last * / \, else the first ^; 0 when there is none
SplitAt(x) ==
    IF TopLevel(x, {"+", "-"}) # {} THEN Max(TopLevel(x, {"+", "-"}))
    ELSE IF TopLevel(x, {"*", "/", "\\"}) # {} THEN Max(TopLevel(x, {"*", "/", "\\"}))
    ELSE IF TopLevel(x, {"^"}) # {} THEN Min(TopLevel(x, {"^"}))
    ELSE 0

Malformed == << <<"?">> >>

\* the post-order of the tree of x in which higher precedence binds tighter,
\* + - * / \ group to the left and ^ groups to the right; it holds the token
\* "?" when x is no expression of operands, binary operators and parentheses
RECURSIVE RefPostfix(_)
RefPostfix(x) ==
    LET n == Len(x)
        k == SplitAt(x)
    IN  IF n = 0 THEN Malformed
        ELSE IF k > 0
        THEN RefPostfix(SubSeq(x, 1, k - 1)) \o RefPostfix(SubSeq(x, k + 1, n)) \o << <<x[k]>> >>
        ELSE IF n = 1 THEN (IF isOperandChar(x[1]) THEN << <<x[1]>> >> ELSE Malformed)
        ELSE IF x[1] = "(" /\ x[n] = ")" /\ \A j \in 2..n : ParenDepth(x, j) > 0
        THEN RefPostfix(SubSeq(x, 2, n - 1))
        ELSE Malformed

WellFormed(x) == \A k \in 1..Len(RefPostfix(x)) : RefPostfix(x)[k] # <<"?">>

Chars(str) == [k \in 1..Len(str) |-> <<str[k]>>]

\* C11: for every well-formed expression of single-character operands,
\* binary operators and parentheses the output of toPostfix is the post-order
\* of its precedence tree (+ - lowest, then * / \, then ^; only ^ groups to
\* the right); a-b-c gives a b - c -, a^b^c gives a b c ^ ^, (a+b)*c gives
\* a b + c * and 3*(4+5)-6/2 gives 3 4 5 + * 6 2 / -.
C11_Precedence ==
    (call.entry = "submit" /\ call.builder = "postfix" /\ WellFormed(input))
    => /\ call.tokens = RefPostfix(input)
       /\ input = SCENARIOS[1] => call.tokens = Chars(<<"a", "b", "-", "c", "-">>)
       /\ input = SCENARIOS[2] => call.tokens = Chars(<<"a", "b", "c", "^", "^">>)
       /\ input = EXAMPLE_EXPRESSIONS[2] => call.tokens = Chars(<<"a", "b", "+", "c", "*">>)
       /\ input = EXAMPLE_EXPRESSIONS[3]
          => call.tokens = Chars(<<"3", "4", "5", "+", "*", "6", "2", "/", "-">>)

\* a^b^c was converted
C11_Witness ==
    /\ call.entry = "submit"
    /\ call.builder = "postfix"
    /\ input = SCENARIOS[2]
    /\ call.tokens = Chars(<<"a", "b", "c", "^", "^">>)

\* the shapes of a leaf, of a binary operator node and of a unary-negate node
VarShape(v) == <<"variable", <<v>>, <<>>, <<>>>>

NumShape(v) == <<"number", <<v>>, <<>>, <<>>>>

OpShape(op, left, right) == <<"operator", <<op>>, left, right>>

NegShape(child) == <<"unary", <<"n", "e", "g">>, <<>>, child>>

\* C12: for a+b*c toPostfix returns a b c * +, and buildTreeFromPostfix on
\* that postfix and the recursive-descent builder on the infix text both
\* return a valid tree + with left leaf a and right child * of b and c.
C12_ScenarioAPlusBTimesC ==
    (input = EXAMPLE_EXPRESSIONS[1] /\ call.entry = "submit")
    => /\ call.builder = "postfix" => call.tokens = Chars(<<"a", "b", "c", "*", "+">>)
       /\ call.status = "returned"
          => /\ call.result.isValid
             /\ Shape(call.heap, call.result.tree)
                  = OpShape("+", VarShape("a"), OpShape("*", VarShape("b"), VarShape("c")))

C12_Witness ==
    /\ input = EXAMPLE_EXPRESSIONS[1]
    /\ call.entry = "submit"
    /\ Returned({"postfix"})
    /\ call.result.isValid
    /\ Len(call.result.steps) = 5

AllowedAlphabet(x) ==
    \A k \in 1..Len(x) : isOperandChar(x[k]) \/ isOperatorChar(x[k]) \/ x[k] \in {"(", ")"}

\* some prefix of x closes more parentheses than it opened
NestingNegative(x) == \E k \in 1..Len(x) : ParenDepth(x, k + 1) < 0

\* x opens more parentheses than it closes
NestingOpen(x) == ParenDepth(x, Len(x) + 1) > 0

\* C13: on every string of letters, digits, operators and parentheses
\* toPostfix fails exactly when the parenthesis nesting goes negative at some
\* prefix (the error of the scan) or ends above zero (the error of the
\* drain); an output it returns holds no parenthesis.
C13_UnbalancedParentheses ==
    (Returned({"toPostfix"}) /\ AllowedAlphabet(input))
    => LET r == call.result IN
       /\ r.threw <=> (NestingNegative(input) \/ NestingOpen(input))
       /\ NestingNegative(input)
          => r.error = "Parentesis desbalanceados en conversion a postfix."
       /\ (~NestingNegative(input) /\ NestingOpen(input))
          => r.error = "Parentesis desbalanceados al final de la conversion a postfix."
       /\ ~r.threw => \A k \in 1..Len(r.value) : r.value[k] \notin {"(", ")"}

\* "(" is left on the stack behind an operator and found at the drain
C13_Witness ==
    /\ Returned({"toPostfix"})
    /\ AllowedAlphabet(input)
    /\ Len(input) >= 3
    /\ ~NestingNegative(input)
    /\ NestingOpen(input)
    /\ call.result.threw
    /\ \E k \in 1..Len(input) : isOperatorChar(input[k])

\* C14: the recursive-descent builder parses -x^2 as -(x^2), a valid result
\* whose tree is the unary-negate node over ^ of x and 2, and accepts
\* (a+b)^2 with root ^ whose left child is the + subtree.
C14_NegateOfPower ==
    Returned(RecursiveBuilders)
    => /\ input = SCENARIOS[3]
          => /\ call.result.isValid
             /\ Shape(call.heap, call.result.tree)
                  = NegShape(OpShape("^", VarShape("x"), NumShape("2")))
       /\ input = SCENARIOS[4]
          => /\ call.result.isValid
             /\ Shape(call.heap, call.result.tree)
                  = OpShape("^", OpShape("+", VarShape("a"), VarShape("b")), NumShape("2"))

\* C15 as stated: the recursive-descent builder on -x^2 returns a tree whose
\* root is ^ with left child unary-negate(x) and right child the leaf 2.
C15_PowerOfNegate ==
    (Returned({"plain"}) /\ input = SCENARIOS[3])
    => /\ call.result.isValid
       /\ Shape(call.heap, call.result.tree)
            = OpShape("^", NegShape(VarShape("x")), NumShape("2"))

\* C15, amended: the recursive-descent builder without virtual stack returns
\* on -x^2 a valid result whose tree is unary-negate over ^ of x and 2, with
\* the steps x, 2, ^, NEG, DONE: the operand of "-" is parsed by parseFactor,
\* which takes the exponent, so no exponent is left after the NEG node.
C15_NegateBindsLooser ==
    (Returned({"plain"}) /\ input = SCENARIOS[3])
    => /\ call.result.isValid
       /\ Shape(call.heap, call.result.tree)
            = NegShape(OpShape("^", VarShape("x"), NumShape("2")))
       /\ [k \in 1..Len(call.result.steps) |-> call.result.steps[k].token]
            = << <<"x">>, <<"2">>, <<"^">>, <<"N", "E", "G">>, <<"D", "O", "N", "E">> >>

C15_Witness ==
    /\ Returned({"plain"})
    /\ input = SCENARIOS[3]
    /\ call.heap[call.result.tree].type = "unary"

IsNegStep(step) == step.token = <<"N", "E", "G">>

\* C16: in the virtual-stack builder the NEG step pops its operand and pushes
\* the negate node: the stack is as large after the NEG step as before it,
\* the operand is no stack entry of its own any more, and -x and -x+y end
\* with exactly one node on the stack and isValid = true.
C16_UnaryPopsOperand ==
    call.builder = "vstack"
    => /\ \A k \in 2..Len(call.steps) :
             IsNegStep(call.steps[k])
             => LET after == SnapshotOf(call, call.steps[k])
                    before == SnapshotOf(call, call.steps[k - 1])
                IN  /\ Len(after) = Len(before)
                    /\ \A j \in 1..Len(after) : after[j] # call.heap[Last(after)].right
       /\ (call.status = "returned" /\ input \in {SCENARIOS[5], SCENARIOS[6]})
          => (call.result.isValid /\ Len(Stack(call)) = 1)

\* the nodes of the subtree of r
RECURSIVE Reach(_, _)
Reach(heap, r) ==
    IF r = NoNode THEN {}
    ELSE {r} \cup Reach(heap, heap[r].left) \cup Reach(heap, heap[r].right)

\* the child slots, among the nodes of S, that hold node n
ParentSlots(heap, S, n) ==
    {<<q, "left">> : q \in {q \in S : heap[q].left = n}}
        \cup {<<q, "right">> : q \in {q \in S : heap[q].right = n}}

\* the nodes under the entries of a stack are under one entry only and have
\* at most one parent
Unshared(heap, entries) ==
    /\ \A i, j \in 1..Len(entries) :
          i # j => Reach(heap, entries[i]) \cap Reach(heap, entries[j]) = {}
    /\ LET S == UNION {Reach(heap, entries[i]) : i \in 1..Len(entries)}
       IN  \A n \in S : Cardinality(ParentSlots(heap, S, n)) <= 1

\* C17: in every stackSnapshot recorded by either builder and in the final
\* tree no node is shared: the subtrees of two stack entries are disjoint
\* and every node has at most one parent.
C17_NoSharedNode ==
    call.builder \in {"postfix", "vstack"}
    => /\ \A k \in 1..Len(call.steps) :
             Unshared(call.heap, SnapshotOf(call, call.steps[k]))
       /\ (call.status = "returned" /\ call.result.isValid)
          => Unshared(call.heap, <<call.result.tree>>)

\* the steps of the virtual-stack builder other than "()" and "DONE"
IsTokenStep(step) == step.token \notin {<<"(", ")">>, <<"D", "O", "N", "E">>}

\* the shapes of the trees of a step's stackSnapshot
SnapshotShapes(c, step) ==
    [j \in 1..Len(SnapshotOf(c, step)) |-> Shape(c.heap, SnapshotOf(c, step)[j])]

\* C18: for every expression on which the virtual-stack builder and
\* buildTreeFromPostfix, run on the expression's postfix form, both succeed,
\* the steps of the first without its "()" and "DONE" steps and the steps of
\* the second are equally many and have, position by position, the same
\* token and the same stackSnapshot shape.
C18_TraceEquivalence ==
    (Returned({"vstack"}) /\ call.result.isValid)
    => LET conv == toPostfix(normalizeExpression(input))
           p == IF conv.threw THEN Idle ELSE buildTreeFromPostfix(conv.value)
       IN  (p.status = "returned" /\ p.result.isValid)
           => LET kept == SelectSeq(call.result.steps, IsTokenStep)
              IN  /\ Len(kept) = Len(p.result.steps)
                  /\ \A k \in 1..Len(kept) :
                        /\ kept[k].token = p.result.steps[k].token
                        /\ SnapshotShapes(call, kept[k]) = SnapshotShapes(p, p.result.steps[k])

\* (a+b)*c was parsed: a "()" step is dropped and five steps are compared
C18_Witness ==
    /\ Returned({"vstack"})
    /\ call.result.isValid
    /\ input = EXAMPLE_EXPRESSIONS[2]
    /\ Len(call.result.steps) = 7
    /\ buildTreeFromPostfix(toPostfix(input).value).result.isValid

WellFormedNode(node) ==
    CASE node.type = "operator" -> node.left # NoNode /\ node.right # NoNode
      [] node.type \in {"number", "variable"} -> node.left = NoNode /\ node.right = NoNode
      [] node.type = "unary" -> node.left = NoNode /\ node.right # NoNode
      [] OTHER -> FALSE

WellFormedTree(heap, r) == \A n \in Reach(heap, r) : WellFormedNode(heap[n])

\* C19: every tree returned by a successful parse and every node of every
\* recorded stackSnapshot is well-formed: an operator node has a left and a
\* right child, a number or variable node has no child, and a unary-negate
\* node has exactly one child, in its right slot.
C19_WellFormedNodes ==
    /\ call.builder \in {"postfix", "vstack"}
       => \A k \in 1..Len(call.steps) :
             \A j \in 1..Len(SnapshotOf(call, call.steps[k])) :
                WellFormedTree(call.heap, SnapshotOf(call, call.steps[k])[j])
    /\ (call.status = "returned" /\ call.builder \in {"postfix", "vstack", "plain"}
          /\ call.result.isValid)
       => WellFormedTree(call.heap, call.result.tree)

\* a snapshot holds a unary-negate node over an operator node
C19_Witness ==
    /\ call.builder = "vstack"
    /\ Len(call.steps) >= 4
    /\ IsNegStep(Last(call.steps))
    /\ LET top == call.heap[Last(SnapshotOf(call, Last(call.steps)))]
       IN  top.type = "unary" /\ call.heap[top.right].type = "operator"

\* the nodes under the entries of a stack
NodesUnder(heap, entries) == UNION {Reach(heap, entries[i]) : i \in 1..Len(entries)}

UniqueIds(heap, S) == \A m, n \in S : m # n => heap[m].id # heap[n].id

\* C20: in the virtual-stack builder no two distinct nodes of one
\* stackSnapshot, or of the returned tree, have the same id.
C20_UniqueIds ==
    call.builder = "vstack"
    => /\ \A k \in 1..Len(call.steps) :
             UniqueIds(call.heap, NodesUnder(call.heap, SnapshotOf(call, call.steps[k])))
       /\ (call.status = "returned" /\ call.result.isValid)
          => UniqueIds(call.heap, Reach(call.heap, call.result.tree))

\* the returned tree has two leaves of the same type and value
C20_Witness ==
    /\ Returned({"vstack"})
    /\ call.result.isValid
    /\ \E m, n \in Reach(call.heap, call.result.tree) :
          /\ m # n
          /\ call.heap[m].type = "variable"
          /\ call.heap[n].type = "variable"
          /\ call.heap[m].value = call.heap[n].value

\* C21: on every successful run of buildTreeFromPostfix a completion step
\* follows the step of the last token: the last step of a successful trace
\* is a completion marker, not the step of a postfix token.
C21_CompletionStep ==
    (Returned({"postfix"}) /\ call.result.isValid)
    => /\ Len(call.result.steps) = Len(call.tokens) + 1
       /\ Last(call.result.steps).token = <<"D", "O", "N", "E">>

\* C22: in every step recorded by buildTreeFromPostfix and by the
\* virtual-stack builder currentRoot is the last element of the step's
\* stackSnapshot, and it is absent exactly when the stackSnapshot is empty.
C22_CurrentRootIsTop ==
    call.builder \in {"postfix", "vstack"}
    => \A k \in 1..Len(call.steps) :
          LET step == call.steps[k]
              snapshot == SnapshotOf(call, step)
          IN  /\ (step.currentRoot = NoNode) <=> (snapshot = <<>>)
              /\ snapshot # <<>> => step.currentRoot = Last(snapshot)

\* a step whose snapshot has two entries, the second one the currentRoot
C22_Witness ==
    /\ call.builder \in {"postfix", "vstack"}
    /\ Len(call.steps) >= 2
    /\ Len(SnapshotOf(call, call.steps[2])) = 2
    /\ call.steps[2].currentRoot = SnapshotOf(call, call.steps[2])[2]

RECURSIVE Flatten(_)
Flatten(tokens) == IF tokens = <<>> THEN <<>> ELSE Head(tokens) \o Flatten(Tail(tokens))

\* C23: tokenize returns a token sequence for every input, the tokens
\* joined in order are the input, and a character that is no letter, digit,
\* operator or parenthesis is a token of its own.
C23_TokenizeLossless ==
    /\ call.status = "idle"
       => LET tokens == tokenize(input) IN
          /\ Flatten(tokens) = input
          /\ \A k \in 1..Len(tokens) :
                /\ tokens[k] # <<>>
                /\ (\E j \in 1..Len(tokens[k]) : ~AllowedAlphabet(<<tokens[k][j]>>))
                   => Len(tokens[k]) = 1
          /\ \A j \in 1..Len(input) :
                ~AllowedAlphabet(<<input[j]>>) => \E k \in 1..Len(tokens) : tokens[k] = <<input[j]>>
    /\ (call.builder \in RecursiveBuilders /\ call.entry = "direct")
       => /\ call.tokens = tokenize(input)
          /\ Flatten(call.tokens) = input

\* a text with a run of two letters followed by "#" was tokenized
C23_Witness ==
    /\ call.builder \in RecursiveBuilders
    /\ call.entry = "direct"
    /\ input = <<"a", "a", "#">>
    /\ call.tokens = << <<"a", "a">>, <<"#">> >>

\* the same outcome, step count, step tokens, snapshot shapes and tree shape
SameOutcome(c, d) ==
    /\ c.result.isValid = d.result.isValid
    /\ ~c.result.isValid => c.result.errorMessage = d.result.errorMessage
    /\ Len(c.result.steps) = Len(d.result.steps)
    /\ \A k \in 1..Len(c.result.steps) :
          /\ k <= Len(d.result.steps)
          /\ c.result.steps[k].step = d.result.steps[k].step
          /\ c.result.steps[k].token = d.result.steps[k].token
          /\ SnapshotShapes(c, c.result.steps[k]) = SnapshotShapes(d, d.result.steps[k])
    /\ c.result.isValid => Shape(c.heap, c.result.tree) = Shape(d.heap, d.result.tree)

\* C24: two runs of toPostfix followed by buildTreeFromPostfix on the same
\* normalized input, whatever ids the random source gives each of them,
\* have the same outcome, the same number of steps, the same token and
\* snapshot shape at every step and the same tree shape.
C24_Deterministic ==
    Returned({"postfix"})
    => \A seed \in IdSeeds :
          LET postfix == IF call.entry = "submit"
                         THEN toPostfix(normalizeExpression(input)).value
                         ELSE input
              again == runCall([buildStart(postfix) EXCEPT !.seed = seed])
          IN  SameOutcome(call, again)

\* a submitted expression gave a tree of three nodes or more whose ids come
\* from the second outcome of the random source
C24_Witness ==
    /\ Returned({"postfix"})
    /\ call.entry = "submit"
    /\ call.seed = 1
    /\ call.result.isValid
    /\ Len(call.result.steps) >= 3
    /\ call.heap[call.result.tree].id = <<"uuid">> \o NumStr(1) \o <<"-">> \o NumStr(Len(call.heap))

\* C25: parse calls are independent: when two calls of the same or of
\* different builders are in progress together, their steps interleaved in
\* any order, each returns the steps and tree shape it returns when run
\* alone on its own text.
C25_CallsIndependent ==
    \A i \in 1..Len(calls) :
       calls[i].run.status = "returned"
       => LET alone == runCall(startOf(calls[i].run.builder, calls[i].expr))
          IN  /\ calls[i].run.result = alone.result
              /\ calls[i].run.heap = alone.heap
              /\ calls[i].run.arrays = alone.arrays

\* the second call returned a tree while the first, of another builder and
\* on another text, is past its first step and still running
C25_Witness ==
    /\ Len(calls) = 2
    /\ calls[1].run.status = "running"
    /\ Len(calls[1].run.steps) >= 1
    /\ calls[2].run.status = "returned"
    /\ calls[2].run.result.isValid
    /\ Len(calls[2].run.result.steps) >= 3
    /\ calls[1].run.builder # calls[2].run.builder
    /\ calls[1].expr # calls[2].expr

\* a step of the recursive-descent builder that is a call of parseFactor
\* which does not fail, or that enters a further iteration of the loop of
\* parseExpression or of parseTerm, moves pos forward
ConsumesToken ==
    (call.status = "running" /\ call.builder \in RecursiveBuilders)
    => LET pc == Last(call.frames).pc IN
       /\ (pc = "parseFactor" /\ ~Failure(call'.result, {"Expresion incompleta (factor faltante).",
                                    "Expresion incompleta (se esperaba un factor).",
                                    "Token invalido:", "Token no valido en factor:"}))
          => call'.pos > call.pos
       /\ (/\ pc \in {"parseExpression:left", "parseExpression:right",
                      "parseTerm:left", "parseTerm:right"}
           /\ call'.status = "running"
           /\ Len(call'.frames) > Len(call.frames))
          => call'.pos = call.pos + 1

\* C26: every call of a builder that has started returns, valid or invalid,
\* and in the recursive-descent builder every call of parseFactor that
\* does not fail and every iteration of a loop consumes a token.
C26_Terminates ==
    /\ (call.status = "running") ~> (call.status = "returned")
    /\ [][ConsumesToken]_vars

\* a call on three operands and two operators has returned a tree after
\* two iterations of a loop
C26_Witness ==
    /\ Returned(RecursiveBuilders)
    /\ call.result.isValid
    /\ Len(call.tokens) = 5
    /\ call.pos = 5
    /\ call.tokens[2] \in {<<"+">>, <<"-">>}
    /\ call.tokens[4] \in {<<"+">>, <<"-">>}

\* the step of buildTreeFromPostfix on an operator token with two or more
\* stack entries replaces the two topmost entries by a new operator node
\* over them and leaves the entries below, and every older node, as they are
OperatorStepEffect ==
    (/\ call.status = "running"
     /\ call.builder = "postfix"
     /\ call.pos < Len(call.tokens)
     /\ isOperatorToken(call.tokens[call.pos + 1])
     /\ Len(call.arrays[StackArray]) >= 2)
    => LET token == call.tokens[call.pos + 1]
           before == call.arrays[StackArray]
           after == call'.arrays[StackArray]
           n == Len(before)
       IN  /\ Len(after) = n - 1
           /\ SubSeq(after, 1, n - 2) = SubSeq(before, 1, n - 2)
           /\ after[n - 1] = Len(call.heap) + 1
           /\ Len(call'.heap) = Len(call.heap) + 1
           /\ SubSeq(call'.heap, 1, Len(call.heap)) = call.heap
           /\ call'.heap[after[n - 1]].type = "operator"
           /\ call'.heap[after[n - 1]].value = token
           /\ call'.heap[after[n - 1]].left = before[n - 1]
           /\ call'.heap[after[n - 1]].right = before[n]
           /\ SnapshotOf(call', Last(call'.steps)) = after

\* C27: an operator token arriving at buildTreeFromPostfix with the stack
\* [s1..sn], n >= 2, leaves the stack [s1..s(n-2), N], N a new operator node
\* with the token as value, left = s(n-1) and right = sn.
C27_OperatorStep == [][OperatorStepEffect]_vars

\* after the step of an operator the stack holds an older entry below the
\* new operator node
C27_Witness ==
    /\ call.builder = "postfix"
    /\ call.status = "running"
    /\ call.steps # <<>>
    /\ isOperatorToken(Last(call.steps).token)
    /\ Len(call.arrays[StackArray]) = 2
    /\ call.heap[call.arrays[StackArray][1]].type # "operator"
    /\ call.heap[call.arrays[StackArray][2]].type = "operator"

\* operand tokens minus operator tokens among the first i tokens
OperandSurplus(tokens, i) ==
    Cardinality({j \in 1..i : isOperandToken(tokens[j])})
    - Cardinality({j \in 1..i : isOperatorToken(tokens[j])})

\* C28: after the step buildTreeFromPostfix records for the i-th postfix
\* token the stackSnapshot has as many entries as there are operand tokens
\* minus operator tokens among the first i tokens, the step's token is the
\* i-th token, and the snapshot has one entry at least.
C28_StackSize ==
    call.builder = "postfix"
    => /\ Len(call.steps) <= Len(call.tokens)
       /\ \A i \in 1..Len(call.steps) :
             /\ call.steps[i].token = call.tokens[i]
             /\ Len(SnapshotOf(call, call.steps[i])) = OperandSurplus(call.tokens, i)
             /\ Len(SnapshotOf(call, call.steps[i])) >= 1

\* a trace of five steps whose snapshots grow to three entries and end at one
C28_Witness ==
    /\ Returned({"postfix"})
    /\ Len(call.steps) = 5
    /\ Len(SnapshotOf(call, call.steps[3])) = 3
    /\ Len(SnapshotOf(call, call.steps[5])) = 1

\* C29: for every text validateExpression accepts, toPostfix of the
\* normalized text returns a postfix string and throws neither of its
\* errors, so submit after a successful validation publishes the model.
C29_ConverterCannotFail ==
    /\ (call.status = "idle" /\ validateExpression(input).isValid)
       => LET conversion == toPostfix(normalizeExpression(input)) IN
          /\ ~conversion.threw
          /\ conversion.error = ""
          /\ submitPublishes("postfix", validateExpression(input).isValid, input)
    /\ (call.entry = "submit" /\ call.pos = 0)
       => /\ validateExpression(input).isValid
          /\ ~toPostfix(normalizeExpression(input)).threw

\* a validated text with parentheses was converted by submit and its
\* postfix handed to the builder
C29_Witness ==
    /\ call.entry = "submit"
    /\ call.builder = "postfix"
    /\ validateExpression(input).isValid
    /\ \E k \in 1..Len(input) : input[k] = "("
    /\ \E k \in 1..Len(input) : isOperatorChar(input[k])
    /\ call.tokens = splitWhitespace(toPostfix(normalizeExpression(input)).value, <<>>, <<>>)

\* the operator stack of toPostfix after the first k characters of expr
ScanStack(expr, k) == toPostfixScan(ConvInit, SubSeq(expr, 1, k)).stack

\* neighbouring operators of a stack are in increasing precedence from
\* bottom to top, or are both "^"
StackOrdered(stack) ==
    \A j \in 1..(Len(stack) - 1) :
       (isOperatorChar(stack[j]) /\ isOperatorChar(stack[j + 1]))
       => \/ precedence(stack[j]) < precedence(stack[j + 1])
          \/ stack[j] = "^" /\ stack[j + 1] = "^"

\* C30: at every point of the scan of toPostfix, within each run of
\* operators on the stack between two "(" entries, or the bottom and the
\* top, precedence does not decrease from bottom to top, and two
\* neighbouring operators have the same precedence only when both are "^".
C30_OperatorStackOrdered ==
    Returned({"toPostfix"})
    => \A k \in 0..Len(input) : StackOrdered(ScanStack(input, k))

\* toPostfix ran on a text at some point of which the stack held two "^"
\* next to each other
C30_Witness ==
    /\ Returned({"toPostfix"})
    /\ ~call.result.threw
    /\ \E k \in 1..Len(input) :
          /\ Len(ScanStack(input, k)) >= 2
          /\ \E j \in 1..(Len(ScanStack(input, k)) - 1) :
                ScanStack(input, k)[j] = "^" /\ ScanStack(input, k)[j + 1] = "^"

\* C31: the step the virtual-stack builder records after a closing
\* parenthesis does not touch the stack: the stackSnapshot and currentRoot
\* of every "()" step equal those of the step recorded just before it.
C31_CloseStepKeepsStack ==
    call.builder = "vstack"
    => \A k \in 1..Len(call.steps) :
          call.steps[k].token = <<"(", ")">>
          => /\ k > 1
             /\ SnapshotOf(call, call.steps[k]) = SnapshotOf(call, call.steps[k - 1])
             /\ call.steps[k].currentRoot = call.steps[k - 1].currentRoot

\* a "()" step recorded over a stack of two entries
C31_Witness ==
    /\ call.builder = "vstack"
    /\ \E k \in 2..Len(call.steps) :
          /\ call.steps[k].token = <<"(", ")">>
          /\ Len(SnapshotOf(call, call.steps[k])) = 2

ParseFactorPcs == {"parseFactor", "parseFactor:unary", "parseFactor:paren", "parseFactor:exponent"}

\* a step in which parseFactor returns normally leaves a token other than
\* "^" as the next one, and parseFactor never finds "^" after a unary minus
ParseFactorReturn ==
    (call.status = "running" /\ call.builder \in RecursiveBuilders)
    => LET pc == Last(call.frames).pc IN
       /\ (/\ pc \in ParseFactorPcs
           /\ call'.status = "running"
           /\ Len(call'.frames) < Len(call.frames))
          => peek(call') # <<"^">>
       /\ pc = "parseFactor:unary" => peek(call) # <<"^">>

\* a "^" node over a unary negate as left child exists only for a text with
\* "^" right after a closing parenthesis
PowerOfNegateParenthesised ==
    call.builder \in RecursiveBuilders
    => \A n \in 1..Len(call.heap) :
          (/\ call.heap[n].type = "operator"
           /\ call.heap[n].value = <<"^">>
           /\ call.heap[n].left # NoNode
           /\ call.heap[call.heap[n].left].type = "unary")
          => \E k \in 2..Len(call.tokens) :
                call.tokens[k] = <<"^">> /\ call.tokens[k - 1] = <<")">>

\* C32: in the recursive-descent builder parseFactor never returns normally
\* with "^" as the next token, so the exponent branch after a unary minus
\* is never taken and a "^" node has a negate as left child only when the
\* negate was written inside parentheses.
C32_NoCaretAfterFactor ==
    /\ [][ParseFactorReturn]_vars
    /\ []PowerOfNegateParenthesised

\* the tokens are maximal runs: each is a run of digits, a run of letters or
\* one other character, and no two neighbours are runs of the same class
MaximalRuns(tokens) ==
    /\ \A k \in 1..Len(tokens) :
          \/ tokens[k] # <<>> /\ \A j \in 1..Len(tokens[k]) : tokens[k][j] \in Digits
          \/ tokens[k] # <<>> /\ \A j \in 1..Len(tokens[k]) : tokens[k][j] \in Letters
          \/ Len(tokens[k]) = 1 /\ tokens[k][1] \notin Digits \cup Letters
    /\ \A k \in 1..(Len(tokens) - 1) :
          /\ ~(tokens[k][1] \in Digits /\ tokens[k + 1][1] \in Digits)
          /\ ~(tokens[k][1] \in Letters /\ tokens[k + 1][1] \in Letters)

\* C33: tokenize uses maximal runs: a maximal run of digits is one token, a
\* maximal run of letters is one token, no two consecutive tokens are both
\* digit runs or both letter runs, and each operator or parenthesis is a
\* token of one character.
C33_MaximalRuns ==
    /\ call.status = "idle" => MaximalRuns(tokenize(input))
    /\ (call.builder \in RecursiveBuilders /\ call.pos = 0) => MaximalRuns(call.tokens)

\* the two letters and the two digits of a text became two tokens
C33_Witness ==
    /\ call.builder \in RecursiveBuilders
    /\ call.entry = "direct"
    /\ input = <<"a", "a", "2", "2">>
    /\ call.tokens = << <<"a", "a">>, <<"2", "2">> >>

\* how many entries of a list of messages are the message m
Occurrences(errors, m) == Cardinality({k \in 1..Len(errors) : errors[k] = m})

\* C34: validateExpression reports each violated check once: the list of
\* errors holds each of the four messages once at most, and isValid is true
\* exactly when the list is empty.
C34_EachCheckOnce ==
    call.status = "idle"
    => LET v == validateExpression(input) IN
       /\ \A m \in {ErrEmpty, ErrChars, ErrParens, ErrConsecutive} : Occurrences(v.errors, m) <= 1
       /\ v.isValid <=> v.errors = <<>>

\* the panel as it is when the step of index i is the current one and the
\* step's stackSnapshot is the array entries
PanelAt(i, entries) ==
    [panel EXCEPT !.currentStepIndex = i,
                  !.arrays = Append(@, entries),
                  !.parseResult.steps[i + 1].stackSnapshot = Len(panel.arrays) + 1]

\* C35: no node of a tree or stackSnapshot a builder returned to the panel
\* is virtual; currentTree gives nothing for an empty snapshot, the node
\* itself for a snapshot of one node, and otherwise a virtual wrapper whose
\* children are the snapshot's entries in order.  The accessor is applied at
\* every step to the step's snapshot and to every prefix of it, the empty
\* one included.
C35_VirtualRootOnlyInCurrentTree ==
    /\ \A r \in 1..Len(panel.heap) :
          /\ "isVirtual" \notin DOMAIN panel.heap[r]
          /\ "children" \notin DOMAIN panel.heap[r]
          /\ panel.heap[r].id # <<"v","i","r","t","u","a","l","-","r","o","o","t">>
    /\ \A i \in 0..(totalSteps - 1) :
          LET snapshot == panel.arrays[panel.parseResult.steps[i + 1].stackSnapshot] IN
          /\ currentTree([panel EXCEPT !.currentStepIndex = i])
                = currentTree(PanelAt(i, snapshot))
          /\ \A k \in 0..Len(snapshot) :
                LET entries == SubSeq(snapshot, 1, k)
                    shown == currentTree(PanelAt(i, entries))
                IN  /\ k = 0 => shown = Nothing
                    /\ k = 1 => shown = TheNode(entries[1])
                    /\ k > 1
                       => /\ shown.kind = "object"
                          /\ shown.isVirtual
                          /\ shown.children = entries
    /\ totalSteps = 0 => currentTree(panel) = Nothing

\* the panel is at a step whose snapshot has two nodes or more, after
\* a step whose snapshot has one
C35_Witness ==
    /\ totalSteps >= 2
    /\ panel.currentStepIndex >= 1
    /\ Len(panel.arrays[panel.parseResult.steps[panel.currentStepIndex + 1].stackSnapshot]) >= 2
    /\ Len(panel.arrays[panel.parseResult.steps[1].stackSnapshot]) = 1
    /\ currentTree(panel).kind = "object"

\* the calls of the store's methods: submit that publishes calls
\* setExpression, clearExpression calls clear, no other handler calls either
StoreStep ==
    /\ lastCall' = "submit:published" => subject' = submitModel(version, expression).model
    /\ lastCall' = "clearExpression" => subject' = Null
    /\ lastCall' \notin {"submit:published", "clearExpression"} => subject' = subject
    /\ panel'.expressionModel = subject'

\* C36: the store holds one value: getCurrent is the model of the most
\* recent setExpression, or null when the most recent call was clear or
\* there was none, and the subscriber has received the current value at
\* subscription and every later value when it was set.
C36_SingleSlotStore ==
    /\ [][StoreStep]_vars
    /\ [](/\ getCurrent = subject
          /\ panel.expressionModel = getCurrent
          /\ lastCall = "ngOnInit" => getCurrent = Null
          /\ lastCall = "clearExpression" => getCurrent = Null
          /\ lastCall = "submit:published" => getCurrent # Null)

\* clear was called on a store that held a model, or setExpression on any:
\* the state after clearExpression with the subscriber at null
C36_Witness ==
    /\ lastCall = "clearExpression"
    /\ getCurrent = Null
    /\ panel.expressionModel = Null
    /\ panel.parseResult = NoExpression

\* the text the panel of revision v parses out of a model
PanelText(v, model) ==
    IF model = Null THEN <<>>
    ELSE IF v = "postfix" THEN trim(model.postfix) ELSE trim(model.normalizedExpression)

\* the builder call the panel of revision v makes on a model
PanelCall(v, model) ==
    IF v = "postfix" THEN buildTreeFromPostfix(model.postfix)
    ELSE parseRecursiveInfix("vstack", trim(model.normalizedExpression))

ShowsLatest ==
    IF PanelText(version, subject) = <<>>
    THEN /\ panel.parseResult = NoExpression
         /\ panel.parseResult.steps = <<>>
         /\ ~panel.parseResult.isValid
    ELSE /\ panel.parseResult = PanelCall(version, subject).result
         /\ panel.heap = PanelCall(version, subject).heap
         /\ panel.arrays = PanelCall(version, subject).arrays

EmissionResetsIndex ==
    lastCall' \in {"submit:published", "clearExpression"} => panel'.currentStepIndex = 0

\* C37: after each value emitted by expression$ the panel's parseResult is
\* the parse of that value's expression, or for null or an empty expression
\* the invalid result without steps and with the "no expression" message,
\* and currentStepIndex is 0; no earlier result survives.
C37_PanelShowsLatest ==
    /\ []ShowsLatest
    /\ [][EmissionResetsIndex]_vars

\* a model was published and the panel shows its parse, of three steps or
\* more, at the first step
C37_Witness ==
    /\ lastCall = "submit:published"
    /\ subject # Null
    /\ totalSteps >= 3
    /\ panel.currentStepIndex = 0
    /\ panel.parseResult = PanelCall(version, subject).result

NavigationAtEnds ==
    /\ (lastCall' = "goPrev" /\ panel.currentStepIndex = 0)
       => panel'.currentStepIndex = panel.currentStepIndex
    /\ (lastCall' = "goNext" /\ panel.currentStepIndex >= totalSteps - 1)
       => panel'.currentStepIndex = panel.currentStepIndex

\* C38: after any sequence of goFirst, goPrev, goNext, goLast and emissions
\* currentStepIndex is 0 when there are no steps and otherwise lies in
\* 0..totalSteps - 1; goPrev at the first step and goNext at the last one
\* leave it unchanged.
C38_NavigationInRange ==
    /\ [](/\ totalSteps = 0 => panel.currentStepIndex = 0
          /\ totalSteps > 0
             => (0 <= panel.currentStepIndex /\ panel.currentStepIndex <= totalSteps - 1))
    /\ [][NavigationAtEnds]_vars

\* goNext was pressed and the panel is at the last of two steps or more
C38_Witness ==
    /\ lastCall = "goNext"
    /\ totalSteps >= 2
    /\ panel.currentStepIndex = totalSteps - 1

====
